---------------------------- MODULE Spec2Model ----------------------------
(***************************************************************************)
(* A model of the WHOIS client of src/src/lib.rs: construction of the      *)
(* server registry (WhoIs::from_inner), selection of the initial server    *)
(* (WhoIs::lookup), and the referral-following loop (WhoIs::lookup_inner   *)
(* around WhoIs::_lookup_inner), with the connect step over the resolved   *)
(* candidate addresses, the write, and the read until the stream closes.   *)
(*                                                                         *)
(* Text.  A Rust string is modelled as a sequence of lexemes (tokens):     *)
(* a domain label, ".", ":", a port number, "$addr", "\r", "\n", " ", a    *)
(* referral header label, a scheme prefix, an IP literal.  String          *)
(* equality is equality of the sequences; concatenation is \o; the         *)
(* operations the code applies to strings (find, slicing, replace, the     *)
(* regular expression, format!) are computed on the sequences.             *)
(***************************************************************************)
EXTENDS Integers, Sequences, FiniteSets, TLC

(***************************************************************************)
(* Bounds of the model.                                                    *)
(***************************************************************************)
\* The largest follow a lookup is started with.
MaxFollow == 3

\* The largest number of addresses a host resolves to.
MaxCandidates == 2

(***************************************************************************)
(* Program constants (lib.rs 199-203).                                     *)
(***************************************************************************)
DEFAULT_FOLLOW == 2
DEFAULT_TIMEOUT == 60000
DEFAULT_WHOIS_HOST_PORT == 43
DEFAULT_WHOIS_HOST_QUERY == <<"$addr", "\r", "\n">>
DEFAULT_PUNYCODE == TRUE

(***************************************************************************)
(* Option and Result values.                                               *)
(***************************************************************************)
None == [some |-> FALSE]
Some(v) == [some |-> TRUE, v |-> v]

Ok(v) == [ok |-> TRUE, val |-> v]
Err(e) == [ok |-> FALSE, err |-> e]

\* The variants of WhoIsError the model produces.
MapError(msg) == [variant |-> "MapError", msg |-> msg]
IOError == [variant |-> "IOError"]
TimeoutError == [variant |-> "TimeoutError"]
RetryError(server, follow) ==
    [variant |-> "RetryError", server |-> server, follow |-> follow]

(***************************************************************************)
(* Lexemes.                                                                *)
(***************************************************************************)
Labels ==
    { "whois", "pir", "org", "ripe", "arin", "net", "nic", "uk", "co",
      "com", "example", "example-registrar", "iana", "www",
      "xn--bcher-kva" }

\* Labels with non-ASCII letters (valid in a lookup target, which the
\* validator accepts, and converted by idna::domain_to_ascii).
UnicodeLabels == { "bücher" }

PortTokens == { "43", "4343" }
IPv4Literals == { "66.42.43.17", "192.0.2.7" }
IPv6Literals == { "fe80::5400:1ff:feaf:b71" }

\* Whitespace other than the line feed: the class [^\S\n] of the pattern.
InlineSpace == { " ", "\t", "\r" }

(***************************************************************************)
(* String operations.                                                      *)
(***************************************************************************)
Min(S) == CHOOSE m \in S : \A n \in S : m <= n

\* str::find(pat): the index of the first occurrence of the token, if any.
find(s, tok) ==
    LET hits == { i \in 1..Len(s) : s[i] = tok }
    IN  IF hits = {} THEN None ELSE Some(Min(hits))

\* &s[from..]: the suffix starting after the first from tokens.
slice_from(s, from) == SubSeq(s, from + 1, Len(s))

\* str::replace(from, to): every occurrence of the token replaced.
RECURSIVE replace(_, _, _)
replace(s, from, to) ==
    IF s = <<>> THEN <<>>
    ELSE (IF Head(s) = from THEN to ELSE <<Head(s)>>)
         \o replace(Tail(s), from, to)

(***************************************************************************)
(* Host literals: validators::host::HostLocalable.  A host is a domain, an *)
(* IPv4 or an IPv6 address, each with an optional port.                    *)
(***************************************************************************)
IsDomainName(s) ==
    /\ Len(s) >= 1
    /\ Len(s) % 2 = 1
    /\ \A i \in 1..Len(s) :
          IF i % 2 = 1 THEN s[i] \in Labels ELSE s[i] = "."

HasPortSuffix(s) ==
    /\ Len(s) >= 3
    /\ s[Len(s) - 1] = ":"
    /\ s[Len(s)] \in PortTokens

WithoutPort(s) == SubSeq(s, 1, Len(s) - 2)

\* HostLocalable::from_str: the host keeps its full text (get_full_domain,
\* get_full_ipv4, get_full_ipv6) and whether it carries a port (get_port).
HostLocalable_from_str(s) ==
    CASE IsDomainName(s) ->
            Ok([kind |-> "Domain", full |-> s, port |-> FALSE])
      [] HasPortSuffix(s) /\ IsDomainName(WithoutPort(s)) ->
            Ok([kind |-> "Domain", full |-> s, port |-> TRUE])
      [] Len(s) = 1 /\ s[1] \in IPv4Literals ->
            Ok([kind |-> "IPv4", full |-> s, port |-> FALSE])
      [] Len(s) = 3 /\ HasPortSuffix(s) /\ s[1] \in IPv4Literals ->
            Ok([kind |-> "IPv4", full |-> s, port |-> TRUE])
      [] Len(s) = 1 /\ s[1] \in IPv6Literals ->
            Ok([kind |-> "IPv6", full |-> s, port |-> FALSE])
      [] Len(s) = 5 /\ HasPortSuffix(s) /\ s[1] = "[" /\ s[2] \in IPv6Literals
            /\ s[3] = "]" ->
            Ok([kind |-> "IPv6", full |-> s, port |-> TRUE])
      [] OTHER -> Err([variant |-> "HostError"])

(***************************************************************************)
(* JSON values (serde_json::Value).  A JSON string is a token sequence; an *)
(* object is a function from its keys to values.                           *)
(***************************************************************************)
JNull == [t |-> "null"]
JBool(b) == [t |-> "bool", b |-> b]
JNumber(n) == [t |-> "number", n |-> n]
JString(s) == [t |-> "string", s |-> s]
JObject(m) == [t |-> "object", m |-> m]

is_null(v) == v.t = "null"
is_object(v) == v.t = "object"
as_str(v) == IF v.t = "string" THEN Some(v.s) ELSE None
as_bool(v) == IF v.t = "bool" THEN Some(v.b) ELSE None

\* Map::get / Value::get: the member under the key, if the value is an
\* object that has it.
get(v, key) ==
    IF v.t = "object" /\ key \in DOMAIN v.m THEN Some(v.m[key]) ELSE None

\* An object given by its members, a set of <<key, value>> pairs.
Obj(pairs) ==
    JObject([k \in { p[1] : p \in pairs } |->
                (CHOOSE p \in pairs : p[1] = k)[2]])

(***************************************************************************)
(* WhoIsServerValue (lib.rs 118-197).                                      *)
(***************************************************************************)
WhoIsServerValue(host, query, punycode) ==
    [host |-> host, query |-> query, punycode |-> punycode]

\* A faulty from_string: the entry asks for no punycode conversion.
from_string_without_punycode(string) ==
    LET host == HostLocalable_from_str(string)
    IN  IF host.ok
        THEN Ok(WhoIsServerValue(host.val, None, FALSE))
        ELSE Err(MapError("The server value is not a correct host string."))

\* WhoIsServerValue::from_string (lib.rs 181-197).
from_string(string) ==
    LET host == HostLocalable_from_str(string)
    IN  IF host.ok
        THEN Ok(WhoIsServerValue(host.val, None, DEFAULT_PUNYCODE))
        ELSE Err(MapError("The server value is not a correct host string."))

from_value(value) ==
    IF is_object(value)
    THEN LET host == get(value, <<"host">>)
             query == get(value, <<"query">>)
             punycode == get(value, <<"punycode">>)
         IN  IF ~host.some
             THEN Err(MapError(
                 "The server value is an object, but it has not a host string."))
             ELSE IF ~as_str(host.v).some
             THEN Err(MapError(
                 "The server value is an object, but it has not a host string."))
             ELSE IF ~HostLocalable_from_str(as_str(host.v).v).ok
             THEN Err(MapError(
                 "The server value is an object, but it has not a correct host string."))
             ELSE IF query.some /\ ~as_str(query.v).some
             THEN Err(MapError(
                 "The server value is an object, but it has an incorrect query string."))
             ELSE IF punycode.some /\ ~as_bool(punycode.v).some
             THEN Err(MapError(
                 "The server value is an object, but it has an incorrect punycode boolean value."))
             ELSE Ok(WhoIsServerValue(
                     HostLocalable_from_str(as_str(host.v).v).val,
                     IF query.some THEN Some(as_str(query.v).v) ELSE None,
                     IF punycode.some THEN as_bool(punycode.v).v
                                      ELSE DEFAULT_PUNYCODE))
    ELSE IF as_str(value).some
    THEN from_string(as_str(value).v)
    ELSE Err(MapError("The server value is not an object or a host string."))

\* idna::domain_to_ascii: every label with non-ASCII letters is replaced by
\* its ASCII-compatible encoding; the other tokens are kept.
Punycode == [l \in UnicodeLabels |-> "xn--bcher-kva"]

domain_to_ascii(domain) ==
    [i \in 1..Len(domain) |->
        IF domain[i] \in UnicodeLabels THEN Punycode[domain[i]] ELSE domain[i]]

(***************************************************************************)
(* WhoIs::from_inner (lib.rs 283-323): the registry built from the parsed  *)
(* JSON map, a function from keys to JSON values.                          *)
(***************************************************************************)
WhoIs(map, ip) == [map |-> map, ip |-> ip]

\* A faulty from_inner: an entry that fails to parse is left out instead of
\* failing the construction.
from_inner_skipping(map) ==
    IF <<"_">> \notin DOMAIN map
    THEN Err(MapError("Cannot find _ in the server list."))
    ELSE LET server == map[<<"_">>]
             rest == DOMAIN map \ { <<"_">> }
             kept == { k \in rest : ~is_null(map[k]) /\ from_value(map[k]).ok }
         IN  IF ~is_object(server)
             THEN Err(MapError("_ in the server list is not an object."))
             ELSE IF ~get(server, <<"ip">>).some
             THEN Err(MapError(
                 "Cannot find ip in the _ object in the server list."))
             ELSE IF is_null(get(server, <<"ip">>).v)
             THEN Err(MapError(
                 "ip in the _ object in the server list is null."))
             ELSE IF ~from_value(get(server, <<"ip">>).v).ok
             THEN from_value(get(server, <<"ip">>).v)
             ELSE Ok(WhoIs([k \in kept |-> from_value(map[k]).val],
                           from_value(get(server, <<"ip">>).v).val))

from_inner(map) ==
    IF <<"_">> \notin DOMAIN map
    THEN Err(MapError("Cannot find _ in the server list."))
    ELSE LET server == map[<<"_">>]
             rest == DOMAIN map \ { <<"_">> }
             kept == { k \in rest : ~is_null(map[k]) }
             bad == { k \in kept : ~from_value(map[k]).ok }
         IN  IF ~is_object(server)
             THEN Err(MapError("_ in the server list is not an object."))
             ELSE IF ~get(server, <<"ip">>).some
             THEN Err(MapError(
                 "Cannot find ip in the _ object in the server list."))
             ELSE IF is_null(get(server, <<"ip">>).v)
             THEN Err(MapError(
                 "ip in the _ object in the server list is null."))
             ELSE IF ~from_value(get(server, <<"ip">>).v).ok
             THEN from_value(get(server, <<"ip">>).v)
             ELSE IF bad # {}
             \* the loop returns at the first entry that fails, in the map's
             \* iteration order
             THEN from_value(map[CHOOSE k \in bad : TRUE])
             ELSE Ok(WhoIs([k \in kept |-> from_value(map[k]).val],
                           from_value(get(server, <<"ip">>).v).val))

\* REF_SERVER_RE (lib.rs 72-76), the pattern
\*   (ReferralServer|Registrar Whois|Whois Server|WHOIS Server|
\*    Registrar WHOIS Server):[^\S\n]*(r?whois://)?(.*)
\* A header label and a scheme prefix are one token each.  captures(text) is
\* group 3 of the leftmost match: after the label and the colon, the inline
\* whitespace is skipped, then one scheme prefix if present, and the group
\* runs to the end of the line ("." does not match "\n").
RefLabels ==
    { "ReferralServer", "Registrar Whois", "Whois Server", "WHOIS Server",
      "Registrar WHOIS Server" }

Schemes == { "whois://", "rwhois://" }

\* The first index from from on whose token is not in skip.
SkipWhile(s, from, skip) ==
    Min({ i \in from..(Len(s) + 1) : i = Len(s) + 1 \/ s[i] \notin skip })

\* The first index from from on whose token is tok, or Len(s) + 1.
IndexOrEnd(s, from, tok) ==
    Min({ i \in from..(Len(s) + 1) : i = Len(s) + 1 \/ s[i] = tok })

\* A faulty captures: the group starts right after the colon, the inline
\* whitespace and the scheme prefix included.
captures_unskipped(text) ==
    LET starts == { i \in 1..(Len(text) - 1) :
                      text[i] \in RefLabels /\ text[i + 1] = ":" }
    IN  IF starts = {} THEN None
        ELSE Some(SubSeq(text, Min(starts) + 2,
                         IndexOrEnd(text, Min(starts) + 2, "\n") - 1))

\* A faulty captures: the last header of the text is taken, not the first.
captures_last_match(text) ==
    LET starts == { i \in 1..(Len(text) - 1) :
                      text[i] \in RefLabels /\ text[i + 1] = ":" }
    IN  IF starts = {} THEN None
        ELSE LET i == CHOOSE m \in starts : \A n \in starts : n <= m
                 j == SkipWhile(text, i + 2, InlineSpace)
                 k == IF j <= Len(text) /\ text[j] \in Schemes
                      THEN j + 1 ELSE j
                 e == IndexOrEnd(text, k, "\n")
             IN  Some(SubSeq(text, k, e - 1))

captures(text) ==
    LET starts == { i \in 1..(Len(text) - 1) :
                      text[i] \in RefLabels /\ text[i + 1] = ":" }
    IN  IF starts = {} THEN None
        ELSE LET i == Min(starts)
                 j == SkipWhile(text, i + 2, InlineSpace)
                 k == IF j <= Len(text) /\ text[j] \in Schemes
                      THEN j + 1 ELSE j
                 e == IndexOrEnd(text, k, "\n")
             IN  Some(SubSeq(text, k, e - 1))

(***************************************************************************)
(* WhoIs::_lookup_inner (lib.rs 332-414).                                  *)
(***************************************************************************)
\* format!("{}:{}", host, DEFAULT_WHOIS_HOST_PORT)
with_default_port(full) == full \o <<":", ToString(DEFAULT_WHOIS_HOST_PORT)>>

\* A faulty address: the default port is appended to every host.
server_addr_always_default_port(server) ==
    IF server.host.kind = "IPv6"
    THEN with_default_port(<<"[">> \o server.host.full \o <<"]">>)
    ELSE with_default_port(server.host.full)

\* lib.rs 338-360: the address dialed for a server.
server_addr(server) ==
    IF server.host.port
    THEN server.host.full
    ELSE IF server.host.kind = "IPv6"
         THEN with_default_port(<<"[">> \o server.host.full \o <<"]">>)
         ELSE with_default_port(server.host.full)

\* A faulty message: the text is converted again by the flag of the server
\* it is sent to.
query_message_reconverting(server, text) ==
    LET converted == IF server.punycode THEN domain_to_ascii(text) ELSE text
    IN  IF server.query.some
        THEN replace(server.query.v, "$addr", converted)
        ELSE replace(DEFAULT_WHOIS_HOST_QUERY, "$addr", converted)

\* lib.rs 388-392: the message written to the server.
query_message(server, text) ==
    IF server.query.some
    THEN replace(server.query.v, "$addr", text)
    ELSE replace(DEFAULT_WHOIS_HOST_QUERY, "$addr", text)

\* A faulty _lookup_inner: the budget is handed on without the decrement.
_lookup_inner_result_same_budget(h, query_result, addr, follow) ==
    IF follow > 0 /\ h.some /\ h.v # addr /\ from_string(h.v).ok
    THEN Err(RetryError(from_string(h.v).val, follow))
    ELSE Ok(query_result)

\* A faulty _lookup_inner: the captured host is not compared with the
\* address dialed.
_lookup_inner_result_no_self_check(h, query_result, addr, follow) ==
    IF follow > 0 /\ h.some /\ from_string(h.v).ok
    THEN Err(RetryError(from_string(h.v).val, follow - 1))
    ELSE Ok(query_result)

\* lib.rs 400-413: the value _lookup_inner returns once the response is read;
\* h is group 3 of REF_SERVER_RE on the response (lib.rs 401-403), None when
\* the pattern does not match.
_lookup_inner_result(h, query_result, addr, follow) ==
    IF follow > 0 /\ h.some /\ h.v # addr /\ from_string(h.v).ok
    THEN Err(RetryError(from_string(h.v).val, follow - 1))
    ELSE Ok(query_result)

(***************************************************************************)
(* WhoIs::lookup (lib.rs 438-505).                                         *)
(***************************************************************************)
\* A faulty choice: the override is ignored for an IP target.
ip_server_without_override(whois, options) == whois.ip

\* lib.rs 441-444, 448-451: the server of an IPv4 or IPv6 target.
ip_server(whois, options) ==
    IF options.server.some THEN options.server.v ELSE whois.ip

\* A faulty iteration: the suffix after the last "." is taken.
select_step_last_dot(map, tld) ==
    IF tld \in DOMAIN map
    THEN [break |-> TRUE, server |-> Some(map[tld])]
    ELSE IF tld = <<>>
    THEN [break |-> TRUE, server |-> None]
    ELSE IF find(tld, ".").some
    THEN [break |-> FALSE,
          tld |-> slice_from(tld, CHOOSE i \in 1..Len(tld) :
                     tld[i] = "." /\ \A m \in (i + 1)..Len(tld) : tld[m] # ".")]
    ELSE [break |-> FALSE, tld |-> <<>>]

\* A faulty iteration: the loop breaks on the empty suffix before the map is
\* asked for it.
select_step_empty_first(map, tld) ==
    IF tld = <<>>
    THEN [break |-> TRUE, server |-> None]
    ELSE IF tld \in DOMAIN map
    THEN [break |-> TRUE, server |-> Some(map[tld])]
    ELSE IF find(tld, ".").some
    THEN [break |-> FALSE, tld |-> slice_from(tld, find(tld, ".").v)]
    ELSE [break |-> FALSE, tld |-> <<>>]

\* lib.rs 461-478: one iteration of the selection loop.  The loop breaks with
\* the entry found, or with no entry when the suffix is empty; otherwise it
\* goes on with the suffix after the first ".".
select_step(map, tld) ==
    IF tld \in DOMAIN map
    THEN [break |-> TRUE, server |-> Some(map[tld])]
    ELSE IF tld = <<>>
    THEN [break |-> TRUE, server |-> None]
    ELSE IF find(tld, ".").some
    THEN [break |-> FALSE, tld |-> slice_from(tld, find(tld, ".").v)]
    ELSE [break |-> FALSE, tld |-> <<>>]

\* A faulty text: the domain is sent as given whatever the punycode flag.
domain_text_verbatim(server, domain) == domain

\* lib.rs 491-501: the text of a Domain target sent to the server.
domain_text(server, domain) ==
    IF server.punycode THEN domain_to_ascii(domain) ELSE domain

(***************************************************************************)
(* The inputs the model draws from.                                        *)
(***************************************************************************)
H_pir == <<"whois", ".", "pir", ".", "org">>
H_ripe == <<"whois", ".", "ripe", ".", "net">>
H_arin == <<"whois", ".", "arin", ".", "net">>
H_nic == <<"whois", ".", "nic", ".", "uk">>
H_registrar == <<"whois", ".", "example-registrar", ".", "com">>
H_iana == <<"whois", ".", "iana", ".", "org", ":", "4343">>

\* A JSON document's top-level map, given by its <<key, value>> pairs.
MapOf(pairs) ==
    [k \in { p[1] : p \in pairs } |-> (CHOOSE p \in pairs : p[1] = k)[2]]

IpArin == Obj({ <<<<"ip">>, JString(H_arin)>> })

\* The servers.json of the crate's documentation (lib.rs 12-22).
ServersDoc ==
    MapOf({ <<<<"org">>, JString(H_pir)>>,
            <<<<>>, JString(H_ripe)>>,
            <<<<"_">>, Obj({ <<<<"ip">>,
                 Obj({ <<<<"host">>, JString(H_arin)>>,
                       <<<<"query">>,
                         JString(<<"n + ", "$addr", "\r", "\n">>)>> })>> })>> })

\* A registry without a catch-all entry.
ServersOrg ==
    MapOf({ <<<<"org">>, JString(H_pir)>>, <<<<"_">>, IpArin>> })

\* A registry with a suffix and a more specific suffix, a null entry, and an
\* IPv4 literal as the fallback host.
ServersUk ==
    MapOf({ <<<<"uk">>, JString(H_nic)>>,
            <<<<"co", ".", "uk">>,
              Obj({ <<<<"host">>, JString(H_nic \o <<":", "4343">>)>>,
                    <<<<"query">>,
                      JString(<<"domain ", "$addr", " ", "$addr", "\r", "\n">>)>>,
                    <<<<"punycode">>, JBool(FALSE)>> })>>,
            <<<<"com">>, JNull>>,
            <<<<"_">>, Obj({ <<<<"ip">>, JString(<<"192.0.2.7">>)>> })>> })

GoodConfigs == { ServersDoc, ServersOrg, ServersUk }

\* Documents from_inner must refuse: each has one defect.
BadConfigs ==
    { MapOf({ <<<<"org">>, JString(H_pir)>> }),
      MapOf({ <<<<"org">>, JString(H_pir)>>, <<<<"_">>, JString(H_arin)>> }),
      MapOf({ <<<<"org">>, JString(H_pir)>>, <<<<"_">>, JNull>> }),
      MapOf({ <<<<"org">>, JString(H_pir)>>,
              <<<<"_">>, Obj({ <<<<"ipv4">>, JString(H_arin)>> })>> }),
      MapOf({ <<<<"org">>, JString(H_pir)>>,
              <<<<"_">>, Obj({ <<<<"ip">>, JNull>> })>> }),
      MapOf({ <<<<"org">>, JString(H_pir)>>,
              <<<<"_">>, Obj({ <<<<"ip">>, JNumber(43)>> })>> }),
      MapOf({ <<<<"org">>, JString(H_pir)>>,
              <<<<"_">>, Obj({ <<<<"ip">>,
                   Obj({ <<<<"host">>, JString(<<"whois", " ", "net">>)>> })>> })>> }),
      MapOf({ <<<<"org">>, JString(<<"whois", ".", ".", "org">>)>>,
              <<<<"_">>, IpArin>> }),
      MapOf({ <<<<"org">>, Obj({ <<<<"query">>, JString(<<"$addr">>)>> })>>,
              <<<<"_">>, IpArin>> }),
      MapOf({ <<<<"org">>, Obj({ <<<<"host">>, JNumber(1)>> })>>,
              <<<<"_">>, IpArin>> }),
      MapOf({ <<<<"org">>, Obj({ <<<<"host">>, JString(H_pir)>>,
                                 <<<<"query">>, JNumber(1)>> })>>,
              <<<<"_">>, IpArin>> }),
      MapOf({ <<<<"org">>, Obj({ <<<<"host">>, JString(H_pir)>>,
                                 <<<<"punycode">>, JString(<<"yes">>)>> })>>,
              <<<<"_">>, IpArin>> }),
      MapOf({ <<<<"org">>, JBool(TRUE)>>, <<<<>>, JString(H_ripe)>>,
              <<<<"_">>, IpArin>> }) }

Configs == GoodConfigs \cup BadConfigs

Domain(full) == [variant |-> "Domain", full |-> full]
IPv4(full) == [variant |-> "IPv4", full |-> full]
IPv6(full) == [variant |-> "IPv6", full |-> full]

Targets ==
    { Domain(<<"example", ".", "org">>),
      Domain(<<"www", ".", "example", ".", "co", ".", "uk">>),
      Domain(<<"bücher", ".", "com">>),
      IPv4(<<"66.42.43.17">>),
      IPv6(<<"fe80::5400:1ff:feaf:b71">>) }

\* Server overrides: a domain host with a port, a query template and no
\* punycode conversion; an IPv6 host without a port.
Overrides ==
    { WhoIsServerValue([kind |-> "Domain", full |-> H_iana, port |-> TRUE],
                       Some(<<"-T dn ", "$addr", "\r", "\n">>), FALSE),
      WhoIsServerValue([kind |-> "IPv6",
                        full |-> <<"fe80::5400:1ff:feaf:b71">>,
                        port |-> FALSE], None, TRUE) }

Timeouts == { None, Some(DEFAULT_TIMEOUT) }

\* WhoIsLookupOptions::from_target (lib.rs 206-213): the default options.
from_target(target) ==
    [target |-> target, server |-> None, follow |-> DEFAULT_FOLLOW,
     timeout |-> Some(DEFAULT_TIMEOUT)]

\* The options a lookup is called with: the defaults of every target, and
\* every choice of the public fields.
WhoIsLookupOptions ==
    { from_target(t) : t \in Targets }
    \cup [ target : Targets,
           server : { None } \cup { Some(o) : o \in Overrides },
           follow : 0..MaxFollow,
           timeout : Timeouts ]

\* What a server may answer.
R_none == <<"No match for domain", "\n">>
R_registrar ==
    <<"Domain Name: EXAMPLE", "\n", "Registrar WHOIS Server", ":", " ">>
    \o H_registrar \o <<"\n", "Updated Date: 2020", "\n">>
R_pir == <<"ReferralServer", ":", " ", " ", "whois://">> \o H_pir \o <<":", "43">>
R_arin == <<"WHOIS Server", ":", "\t">> \o H_arin \o <<"\n">>
R_crlf == <<"Whois Server", ":", " ">> \o H_ripe \o <<"\r", "\n">>
R_two == <<"Registrar Whois", ":", "\n", "Whois Server", ":">> \o H_ripe \o <<"\n">>

Responses == { R_none, R_registrar, R_pir, R_arin, R_crlf, R_two }

(***************************************************************************)
(* The connect step of _lookup_inner (lib.rs 362-386).                     *)
(***************************************************************************)
\* usize arithmetic without overflow checks wraps.  A usize is 64 bits wide;
\* the model keeps 16 bits, a width every candidate count fits in, for the
\* model checker's integers are narrower than 64 bits.
USIZE_BITS == 16

wrapping_sub(a, b) == (a - b) % (2 ^ USIZE_BITS)

\* What a connection attempt may end in.
ConnectOutcomes == { "Ok", "IOError", "TimeoutError" }

error_of(outcome) == IF outcome = "TimeoutError" THEN TimeoutError ELSE IOError

\* lib.rs 367-378: what the connect step does next when `len` candidates
\* were resolved and `tried` attempts have failed: the loop over
\* take(len - 1) tries candidate `tried`; after it the candidate at index
\* len - 1 is tried, and the indexing panics when there is none.
next_attempt(len, tried) ==
    LET last == wrapping_sub(len, 1)
    IN  IF tried < Min({ last, len })
        THEN [phase |-> "loop", index |-> tried]
        ELSE IF last < len
        THEN [phase |-> "last", index |-> last]
        ELSE [phase |-> "panic"]

\* A faulty connect step: the first failure is returned to the caller.
connect_outcome_first_error(phase, outcome) ==
    IF outcome = "Ok"
    THEN [kind |-> "client"]
    ELSE [kind |-> "return", err |-> error_of(outcome)]

\* lib.rs 368-379: in the loop a failure is dropped (if let Ok(c)) and the
\* loop goes on; the failure of the last candidate is returned (?).
connect_outcome(phase, outcome) ==
    IF outcome = "Ok"
    THEN [kind |-> "client"]
    ELSE IF phase = "loop"
    THEN [kind |-> "continue"]
    ELSE [kind |-> "return", err |-> error_of(outcome)]

\* A faulty return: the connection outlives the call that opened it.
drop_client_leaking(open) == open

\* lib.rs 414: `client` is a local of _lookup_inner; the connection is
\* closed when the function returns, whichever way.
drop_client(open) == {}

(***************************************************************************)
(* The state.                                                              *)
(***************************************************************************)
VARIABLES
    config,        \* the parsed JSON map given to from_inner
    whois,         \* what from_inner returned: None before it ran
    pc,            \* where the program is
    options,       \* the WhoIsLookupOptions of the lookup, None before it
    tld,           \* lookup: the suffix the selection loop looks up
    server,        \* lookup_inner: the active server
    text,          \* lookup_inner: the target text sent to every server
    follow,        \* lookup_inner: the remaining budget
    addr,          \* _lookup_inner: the address being dialed
    socket_addrs,  \* _lookup_inner: the number of candidates resolved
    attempts,      \* the connection attempts of this hop that have ended
    open,          \* the hops whose connection is open
    query_result,  \* _lookup_inner: the response read
    dialed,        \* the addresses connected to, in order
    sent,          \* the messages written, in order
    received,      \* the responses read, in order
    result,        \* what lookup returned: None while it runs
    panic          \* the message of the panic that ended the lookup

vars == <<config, whois, pc, options, tld, server, text, follow, addr,
          socket_addrs, attempts, open, query_result, dialed, sent, received,
          result, panic>>

\* The variables of the connect step.
conn == <<socket_addrs, attempts, open, panic>>

Terminal == { "ConfigError", "Done", "Error", "Panic" }

Init ==
    /\ config \in Configs
    /\ whois = None
    /\ pc = "Load"
    /\ options = None
    /\ tld = <<>>
    /\ server = None
    /\ text = <<>>
    /\ follow = 0
    /\ addr = <<>>
    /\ socket_addrs = None
    /\ attempts = <<>>
    /\ open = {}
    /\ query_result = <<>>
    /\ dialed = <<>>
    /\ sent = <<>>
    /\ received = <<>>
    /\ result = None
    /\ panic = None

(***************************************************************************)
(* The actions.                                                            *)
(***************************************************************************)
\* WhoIs::from_string (lib.rs 275-281): the registry is built, or refused.
Load ==
    /\ pc = "Load"
    /\ whois' = Some(from_inner(config))
    /\ pc' = IF from_inner(config).ok THEN "Ready" ELSE "ConfigError"
    /\ UNCHANGED <<config, options, tld, server, text, follow, addr,
                   query_result, dialed, sent, received, result>>
    /\ UNCHANGED conn

\* lookup_inner is entered (lib.rs 422-423).
Enter(srv, txt, opts) ==
    /\ server' = Some(srv)
    /\ text' = txt
    /\ follow' = opts.follow
    /\ pc' = "Loop"

\* WhoIs::lookup is called (lib.rs 438-458): an IP target and an overridden
\* Domain target have their server at once; otherwise the selection loop
\* starts from the full domain.
Lookup ==
    /\ pc = "Ready"
    /\ \E opts \in WhoIsLookupOptions :
          /\ options' = Some(opts)
          /\ IF opts.target.variant \in { "IPv4", "IPv6" }
             THEN /\ Enter(ip_server(whois.v.val, opts), opts.target.full, opts)
                  /\ UNCHANGED tld
             ELSE IF opts.server.some
             THEN /\ Enter(opts.server.v,
                           domain_text(opts.server.v, opts.target.full), opts)
                  /\ UNCHANGED tld
             ELSE /\ tld' = opts.target.full
                  /\ pc' = "Selecting"
                  /\ UNCHANGED <<server, text, follow>>
    /\ UNCHANGED <<config, whois, addr, query_result, dialed, sent, received,
                   result>>
    /\ UNCHANGED conn

\* One iteration of the selection loop (lib.rs 460-479) and, when it breaks,
\* the match on its outcome (lib.rs 480-501).
Select ==
    /\ pc = "Selecting"
    /\ LET step == select_step(whois.v.val.map, tld)
       IN  IF ~step.break
           THEN /\ tld' = step.tld
                /\ UNCHANGED <<pc, server, text, follow, result>>
           ELSE IF step.server.some
           THEN /\ Enter(step.server.v,
                         domain_text(step.server.v, options.v.target.full),
                         options.v)
                /\ UNCHANGED <<tld, result>>
           ELSE /\ result' = Some(Err(MapError(
                      "No whois server is known for this kind of object.")))
                /\ pc' = "Error"
                /\ UNCHANGED <<tld, server, text, follow>>
    /\ UNCHANGED <<config, whois, options, addr, query_result, dialed, sent,
                   received>>
    /\ UNCHANGED conn

\* The loop condition of lookup_inner (lib.rs 424, 434) and the start of
\* _lookup_inner (lib.rs 338-360).
Loop ==
    /\ pc = "Loop"
    /\ IF follow > 0
       THEN /\ addr' = server_addr(server.v)
            /\ pc' = "Connecting"
            /\ UNCHANGED result
       ELSE /\ result' = Some(Err(MapError("Max follow")))
            /\ pc' = "Error"
            /\ UNCHANGED addr
    /\ UNCHANGED <<config, whois, options, tld, server, text, follow,
                   query_result, dialed, sent, received>>
    /\ UNCHANGED conn

\* lib.rs 362-363, 385: the address is dialed.  Without a timeout
\* TcpStream::connect(&addr) gives the connection or its error.  With one
\* the address is resolved first: the resolution fails, or gives a list of
\* candidates, of any length; `socket_addrs.len() - 1` (lib.rs 367) panics
\* on an empty list in a build with overflow checks and wraps in one
\* without.
Connect ==
    /\ pc = "Connecting"
    /\ dialed' = Append(dialed, addr)
    /\ IF ~options.v.timeout.some
       THEN \/ /\ open' = open \cup { Len(dialed') }
               /\ pc' = "Querying"
               /\ UNCHANGED <<result, socket_addrs, panic>>
            \/ /\ result' = Some(Err(IOError))
               /\ pc' = "Error"
               /\ UNCHANGED <<open, socket_addrs, panic>>
       ELSE \/ /\ result' = Some(Err(IOError))
               /\ pc' = "Error"
               /\ UNCHANGED <<open, socket_addrs, panic>>
            \/ \E len \in 0..MaxCandidates, overflow_checks \in BOOLEAN :
                  IF overflow_checks /\ len < 1
                  THEN /\ panic' = Some("attempt to subtract with overflow")
                       /\ pc' = "Panic"
                       /\ UNCHANGED <<open, socket_addrs, result>>
                  ELSE /\ socket_addrs' = Some(len)
                       /\ pc' = "Attempting"
                       /\ UNCHANGED <<open, result, panic>>
    /\ UNCHANGED <<config, whois, options, tld, server, text, follow, addr,
                   attempts, query_result, sent, received>>

\* lib.rs 367-379: one connection attempt, bounded by the timeout
\* (connect_timeout, lib.rs 325-330), and what the connect step makes of its
\* outcome; socket_addrs goes out of scope when the step is left with a
\* connection (lib.rs 384).
Attempt ==
    /\ pc = "Attempting"
    /\ \E next \in { next_attempt(socket_addrs.v, Len(attempts)) } :
          IF next.phase = "panic"
          THEN /\ panic' = Some("index out of bounds")
               /\ pc' = "Panic"
               /\ UNCHANGED <<socket_addrs, attempts, open, result>>
          ELSE \E outcome \in ConnectOutcomes :
               \E step \in { connect_outcome(next.phase, outcome) } :
                  /\ UNCHANGED panic
                  /\ IF step.kind = "client"
                     THEN /\ open' = open \cup { Len(dialed) }
                          /\ socket_addrs' = None
                          /\ attempts' = <<>>
                          /\ pc' = "Querying"
                          /\ UNCHANGED result
                     ELSE /\ attempts' = Append(attempts,
                                 [index |-> next.index, outcome |-> outcome])
                          /\ UNCHANGED <<socket_addrs, open>>
                          /\ IF step.kind = "continue"
                             THEN UNCHANGED <<pc, result>>
                             ELSE /\ result' = Some(Err(step.err))
                                  /\ pc' = "Error"
    /\ UNCHANGED <<config, whois, options, tld, server, text, follow, addr,
                   query_result, dialed, sent, received>>

\* lib.rs 388-394: the query is written and flushed, or an I/O error ends
\* the lookup.
Query ==
    /\ pc = "Querying"
    /\ sent' = Append(sent, query_message(server.v, text))
    /\ \/ /\ pc' = "Reading"
          /\ UNCHANGED <<result, open>>
       \/ /\ result' = Some(Err(IOError))
          /\ open' = drop_client(open)
          /\ pc' = "Error"
    /\ UNCHANGED <<config, whois, options, tld, server, text, follow, addr,
                   socket_addrs, attempts, query_result, dialed, received,
                   panic>>

\* A faulty read: after an I/O error the hop is made again.
Read_retrying ==
    /\ pc = "Reading"
    /\ \/ \E r \in Responses :
             /\ query_result' = r
             /\ received' = Append(received, r)
             /\ pc' = "Parsing"
             /\ UNCHANGED open
       \/ /\ open' = drop_client(open)
          /\ pc' = "Loop"
          /\ UNCHANGED <<query_result, received>>
    /\ UNCHANGED <<config, whois, options, tld, server, text, follow, addr,
                   socket_addrs, attempts, dialed, sent, result, panic>>

\* lib.rs 396-398: the response is read until the server closes the stream,
\* or an I/O error ends the lookup, or the server neither sends nor closes
\* and the read stays pending: no deadline is set on the stream (lib.rs
\* 381-382 are comments).
Read ==
    /\ pc = "Reading"
    /\ \/ \E r \in Responses :
             /\ query_result' = r
             /\ received' = Append(received, r)
             /\ pc' = "Parsing"
             /\ UNCHANGED <<result, open>>
       \/ /\ result' = Some(Err(IOError))
          /\ open' = drop_client(open)
          /\ pc' = "Error"
          /\ UNCHANGED <<query_result, received>>
       \/ /\ pc' = "Pending"
          /\ UNCHANGED <<result, open, query_result, received>>
    /\ UNCHANGED <<config, whois, options, tld, server, text, follow, addr,
                   socket_addrs, attempts, dialed, sent, panic>>

\* lib.rs 400-413 and the match of lookup_inner (lib.rs 425-432): the
\* response is returned, or the loop goes on with the referred server; the
\* connection is closed as _lookup_inner returns.
Parse ==
    /\ pc = "Parsing"
    /\ open' = drop_client(open)
    /\ \E h \in { captures(query_result) } :
       \E r \in { _lookup_inner_result(h, query_result, addr, follow) } :
          IF r.ok
          THEN /\ result' = Some(r)
               /\ pc' = "Done"
               /\ UNCHANGED <<server, follow>>
          ELSE /\ server' = Some(r.err.server)
               /\ follow' = r.err.follow
               /\ pc' = "Loop"
               /\ UNCHANGED result
    /\ UNCHANGED <<config, whois, options, tld, text, addr, socket_addrs,
                   attempts, query_result, dialed, sent, received, panic>>

Next ==
    \/ Load
    \/ Lookup
    \/ Select
    \/ Loop
    \/ Connect
    \/ Attempt
    \/ Query
    \/ Read
    \/ Parse

Spec == Init /\ [][Next]_vars

\* Every step of a lookup is taken: the code runs to its next await or return.
FairSpec == Spec /\ WF_vars(Next)

(***************************************************************************)
(* Properties.                                                             *)
(***************************************************************************)
MaxFollowError == Err(MapError("Max follow"))
NoServerError ==
    Err(MapError("No whois server is known for this kind of object."))

NetworkError(r) == ~r.ok /\ r.err.variant \in { "IOError", "TimeoutError" }

\* A lookup has returned.
Returned == pc \in { "Done", "Error" } /\ result.some

\* The response offers a referral that can be followed from the address: a
\* captured host that differs from the address and parses as a host.
Offers(response, address) ==
    /\ captures(response).some
    /\ captures(response).v # address
    /\ HostLocalable_from_str(captures(response).v).ok

\* The response has the line, from the start of a line to its end, and no
\* referral header comes before it.
HasFirstHeaderLine(response, line) ==
    \E i \in 1..Len(response) :
        /\ i = 1 \/ response[i - 1] = "\n"
        /\ i + Len(line) - 1 <= Len(response)
        /\ SubSeq(response, i, i + Len(line) - 1) = line
        /\ i + Len(line) > Len(response) \/ response[i + Len(line)] = "\n"
        /\ \A m \in 1..(i - 1) :
              ~(response[m] \in RefLabels /\ response[m + 1] = ":")

\* C1: a lookup with follow = 0 that did not fail on the network or in the
\* selection returns the first server's response as a success, and exactly
\* one server was contacted.
C1_FollowZeroReturnsFirstResponse ==
    (/\ Returned
     /\ options.v.follow = 0
     /\ ~NetworkError(result.v)
     /\ result.v # NoServerError)
    => /\ Len(dialed) = 1
       /\ Len(received) = 1
       /\ result.v = Ok(received[1])

\* C2: every lookup whose servers answer and close the stream ends (one
\* whose server stays silent is left pending in the read, which is outside
\* this claim); it connects at most follow times; when the
\* last response read still offers a referral that can be followed, the
\* lookup ends with the "Max follow" error; a success carries the last
\* response read, and that response offers no referral that can be followed.
C2_TerminatesAndExhausts ==
    /\ <>(pc \in Terminal \/ pc = "Pending")
    /\ [](options.some => Len(dialed) <= options.v.follow)
    /\ []((/\ Returned
           /\ ~NetworkError(result.v)
           /\ received # <<>>
           /\ Offers(query_result, addr))
          => result.v = MaxFollowError)
    /\ [](pc = "Done"
          => /\ result.v = Ok(query_result)
             /\ query_result = received[Len(received)]
             /\ ~Offers(query_result, addr))

\* C2's case: a chain of referrals longer than the budget of 2 has ended with
\* the "Max follow" error after two servers were queried.
C2_Witness ==
    /\ Returned
    /\ result.v = MaxFollowError
    /\ options.v.follow = 2
    /\ Len(received) = 2
    /\ Offers(query_result, addr)

\* C3: once a referral has been accepted (the loop of lookup_inner is
\* reached again after a response was read), the next step dials the
\* referred server.
C3_AcceptedReferralIsDialed ==
    [][(pc = "Loop" /\ received # <<>>)
       => (pc' = "Connecting" /\ addr' = server_addr(server.v))]_vars

\* The line of scenario 3.
RegistrarLine == <<"Registrar WHOIS Server", ":", " ">> \o H_registrar

\* C4: with follow = 2 and a first response whose first referral header is
\* the line "Registrar WHOIS Server: whois.example-registrar.com", the second
\* connection is to whois.example-registrar.com:43, the budget after the
\* redirect is 1, and when the second response has no referral header the
\* lookup returns it after exactly two connections.
C4_ScenarioOneRedirect ==
    (/\ options.some
     /\ options.v.follow = 2
     /\ received # <<>>
     /\ HasFirstHeaderLine(received[1], RegistrarLine))
    => /\ Len(received) = 1
          => /\ pc # "Done"
             /\ result.some => NetworkError(result.v)
       /\ (Len(received) = 1 /\ pc # "Parsing")
          => /\ follow = 1
             /\ server.v = from_string(H_registrar).val
       /\ Len(dialed) >= 2 => dialed[2] = H_registrar \o <<":", "43">>
       /\ (Len(received) = 2 /\ ~captures(received[2]).some /\ pc # "Parsing")
          => /\ pc = "Done"
             /\ result.v = Ok(received[2])
             /\ Len(dialed) = 2
             /\ follow = 1

\* C4's case: the scenario has run to its end.
C4_Witness ==
    /\ pc = "Done"
    /\ options.v.follow = 2
    /\ Len(received) = 2
    /\ HasFirstHeaderLine(received[1], RegistrarLine)
    /\ ~captures(received[2]).some
    /\ dialed[2] = H_registrar \o <<":", "43">>

\* C5: a referral is accepted only if the captured host text differs from the
\* address dialed; a response whose captured text equals the address dialed
\* is returned as the result.
C5_NoSelfReferral ==
    [][pc = "Parsing"
       => /\ pc' = "Loop"
             => /\ captures(query_result).some
                /\ captures(query_result).v # addr
          /\ captures(query_result) = Some(addr)
             => /\ pc' = "Done"
                /\ result' = Some(Ok(query_result))]_vars

\* C5's case: a response naming the address dialed has been returned while
\* budget was left.
C5_Witness ==
    /\ pc = "Done"
    /\ follow > 0
    /\ captures(query_result) = Some(addr)
    /\ result.v = Ok(query_result)

\* The registry built, and the options of the lookup.
Registry == whois.v.val
Opts == options.v

\* The lookup is of a Domain target without a server override.
SelectsFromMap ==
    options.some /\ Opts.target.variant = "Domain" /\ ~Opts.server.some

\* The server lookup_inner was entered with is still the active one.
InitialServer == server.some /\ received = <<>>

\* The suffixes of a domain that start at a label: the domain itself and
\* what follows each ".".
LabelSuffixes(d) ==
    { slice_from(d, i) : i \in { 0 } \cup { m \in 1..Len(d) : d[m] = "." } }

\* The suffixes of the target that are keys of the registry.
Registered == LabelSuffixes(Opts.target.full) \cap DOMAIN Registry.map

Longest(S) == CHOOSE s \in S : \A t \in S : Len(t) <= Len(s)

Range(f) == { f[k] : k \in DOMAIN f }

\* C6: for a Domain target without an override, some suffix of which is a
\* key of the registry, the server selected is the entry of the longest such
\* suffix; the selection loop never passes it, and the selection does not
\* fail.
C6_LongestSuffixSelected ==
    (SelectsFromMap /\ Registered # {})
    => /\ InitialServer => server.v = Registry.map[Longest(Registered)]
       /\ pc = "Selecting" => Len(tld) >= Len(Longest(Registered))
       /\ result.some => result.v # NoServerError

\* C6's case: both "uk" and "co.uk" are keys, and the entry of "co.uk" has
\* been selected.
C6_Witness ==
    /\ SelectsFromMap
    /\ InitialServer
    /\ Cardinality(Registered) = 2
    /\ server.v = Registry.map[<<"co", ".", "uk">>]

\* C7: for a Domain target without an override, no suffix of which is a key
\* of the registry: with a catch-all entry (the empty key), that entry is
\* selected and the selection does not fail; without one, the lookup ends
\* with the "no known server" error and nothing is dialed.  The selection
\* loop is always left.
C7_CatchAllOrSelectionError ==
    /\ []((SelectsFromMap /\ Registered = {})
          => IF <<>> \in DOMAIN Registry.map
             THEN /\ InitialServer => server.v = Registry.map[<<>>]
                  /\ result.some => result.v # NoServerError
             ELSE /\ pc \in { "Selecting", "Error" }
                  /\ pc = "Error" => result.v = NoServerError
                  /\ dialed = <<>>
                  /\ sent = <<>>)
    /\ (pc = "Selecting" ~> pc # "Selecting")

\* C7's case: the selection has failed, and nothing was dialed.
C7_Witness ==
    /\ SelectsFromMap
    /\ Registered = {}
    /\ <<>> \notin DOMAIN Registry.map
    /\ pc = "Error"
    /\ result.v = NoServerError
    /\ dialed = <<>>

\* C8: with an override the initial server is the override, the selection
\* loop is not run and the selection cannot fail; without one, an IP target
\* gets the registry's IP fallback entry, which is no entry of the map, and
\* a Domain target gets an entry of the map, never the IP fallback entry.
C8_InitialServer ==
    options.some
    => /\ Opts.server.some
          => /\ pc # "Selecting"
             /\ InitialServer => server.v = Opts.server.v
             /\ result.some => result.v # NoServerError
       /\ (~Opts.server.some /\ Opts.target.variant \in { "IPv4", "IPv6" })
          => /\ pc # "Selecting"
             /\ InitialServer
                => /\ server.v = Registry.ip
                   /\ server.v \notin Range(Registry.map)
             /\ result.some => result.v # NoServerError
       /\ SelectsFromMap
          => (InitialServer
              => /\ server.v \in Range(Registry.map)
                 /\ server.v # Registry.ip)

\* C8's case: an IPv6 target without an override is about to dial the IP
\* fallback entry.
C8_Witness ==
    /\ options.some
    /\ ~Opts.server.some
    /\ Opts.target.variant = "IPv6"
    /\ pc = "Connecting"
    /\ InitialServer
    /\ server.v = Registry.ip

\* The template of the active server.
Template ==
    IF server.v.query.some THEN server.v.query.v ELSE <<"$addr", "\r", "\n">>

\* msg is tpl with each "$addr" replaced by txt: the tokens of tpl appear in
\* order, each "$addr" widened to txt, and nothing else.
Substituted(tpl, txt, msg) ==
    LET before(i) == Cardinality({ m \in 1..(i - 1) : tpl[m] = "$addr" })
        off(i) == (i - 1) + before(i) * (Len(txt) - 1)
    IN  /\ Len(msg) = off(Len(tpl) + 1)
        /\ \A i \in 1..Len(tpl) :
              IF tpl[i] = "$addr"
              THEN SubSeq(msg, off(i) + 1, off(i) + Len(txt)) = txt
              ELSE msg[off(i) + 1] = tpl[i]

\* C9: on every hop the address dialed is the active server's host text when
\* it carries a port, and the host text (an IPv6 address in brackets) with
\* ":43" appended when it carries none; the message written is the server's
\* template, or "$addr\r\n", with every "$addr" replaced by the target text.
\* With the entry "org" -> "whois.pir.org", example.org dials
\* whois.pir.org:43 and writes "example.org\r\n".
C9_DialedAddressAndMessage ==
    /\ pc \in { "Querying", "Parsing" }
       => /\ Len(dialed) = Len(received) + (IF pc = "Querying" THEN 1 ELSE 0)
          /\ dialed[Len(dialed)] =
                IF server.v.host.port THEN server.v.host.full
                ELSE IF server.v.host.kind = "IPv6"
                THEN <<"[">> \o server.v.host.full \o <<"]", ":", "43">>
                ELSE server.v.host.full \o <<":", "43">>
    /\ pc = "Parsing"
       => /\ Len(sent) = Len(dialed)
          /\ Substituted(Template, text, sent[Len(sent)])
    /\ (/\ SelectsFromMap
        /\ Opts.target.full = <<"example", ".", "org">>
        /\ sent # <<>>
        /\ <<"org">> \in DOMAIN Registry.map
        /\ Registry.map[<<"org">>] = from_string(H_pir).val)
       => /\ dialed[1] = H_pir \o <<":", "43">>
          /\ sent[1] = <<"example", ".", "org", "\r", "\n">>

\* C9's case: the scenario's first hop has been made.
C9_Witness ==
    /\ pc = "Parsing"
    /\ config = ServersOrg
    /\ dialed = << H_pir \o <<":", "43">> >>
    /\ sent = << <<"example", ".", "org", "\r", "\n">> >>

\* The document has a defect from_inner must refuse.
Defective(doc) ==
    \/ <<"_">> \notin DOMAIN doc
    \/ ~is_object(doc[<<"_">>])
    \/ <<"ip">> \notin DOMAIN doc[<<"_">>].m
    \/ is_null(doc[<<"_">>].m[<<"ip">>])
    \/ ~from_value(doc[<<"_">>].m[<<"ip">>]).ok
    \/ \E k \in DOMAIN doc \ { <<"_">> } :
          ~is_null(doc[k]) /\ ~from_value(doc[k]).ok

\* C10: from_inner returns a MapError, and no lookup is made, exactly when
\* the document is defective; a registry that is built holds the IP fallback
\* entry and an entry for each key whose value is not null, each with a host
\* that parses, and none for a null value.
C10_ConstructionErrors ==
    whois.some
    => /\ Defective(config)
          => /\ ~whois.v.ok
             /\ whois.v.err.variant = "MapError"
             /\ pc = "ConfigError"
             /\ ~options.some
       /\ whois.v.ok
          => /\ ~Defective(config)
             /\ Registry.ip = from_value(config[<<"_">>].m[<<"ip">>]).val
             /\ HostLocalable_from_str(Registry.ip.host.full).ok
             /\ DOMAIN Registry.map =
                   { k \in DOMAIN config \ { <<"_">> } : ~is_null(config[k]) }
             /\ \A k \in DOMAIN Registry.map :
                   /\ Registry.map[k] = from_value(config[k]).val
                   /\ HostLocalable_from_str(Registry.map[k].host.full).ok

\* C10's case: the "ip" member is null and the construction has failed.
C10_Witness ==
    /\ pc = "ConfigError"
    /\ <<"_">> \in DOMAIN config
    /\ is_object(config[<<"_">>])
    /\ <<"ip">> \in DOMAIN config[<<"_">>].m
    /\ is_null(config[<<"_">>].m[<<"ip">>])
    /\ ~whois.v.ok

\* The connect step has resolved its candidates, and there is at least one.
Candidates == socket_addrs.some /\ socket_addrs.v >= 1

\* The connect step has returned the error of a connection attempt.
ConnectFailed == pc = "Error" /\ attempts # <<>>

\* C11: with a timeout and n >= 1 candidates, the k-th attempt that failed
\* was on the k-th candidate; an attempt is made only while every earlier
\* one failed and fewer than n were made; a success ends the step with the
\* connection and no error; a failure of a candidate before the last is
\* dropped and the next candidate is tried; the step fails only when all n
\* candidates failed, and then with the error of the n-th.
C11_CandidatesInOrderLastErrorSurfaces ==
    /\ [](Candidates
          => /\ Len(attempts) <= socket_addrs.v
             /\ \A k \in 1..Len(attempts) :
                   /\ attempts[k].index = k - 1
                   /\ attempts[k].outcome # "Ok"
             /\ pc = "Attempting"
                => Len(attempts) < socket_addrs.v /\ ~result.some
             /\ ConnectFailed
                => /\ Len(attempts) = socket_addrs.v
                   /\ result.v =
                         Err(error_of(attempts[socket_addrs.v].outcome)))
    /\ [][(pc = "Attempting" /\ Candidates)
          => \/ /\ pc' = "Querying"
                /\ open' = { Len(dialed) }
                /\ result' = result
             \/ /\ Len(attempts') = Len(attempts) + 1
                /\ SubSeq(attempts', 1, Len(attempts)) = attempts
                /\ IF Len(attempts') < socket_addrs.v
                   THEN pc' = "Attempting" /\ result' = result
                   ELSE pc' = "Error"]_vars

\* C11's case: of two candidates the first timed out and the second was
\* refused, and the lookup ended with the error of the second.
C11_Witness ==
    /\ ConnectFailed
    /\ socket_addrs = Some(2)
    /\ attempts = << [index |-> 0, outcome |-> "TimeoutError"],
                     [index |-> 1, outcome |-> "IOError"] >>
    /\ result.v = Err(IOError)

\* A lookup with a timeout is running.
TimeoutConfigured == options.some /\ options.v.timeout.some

\* C12: with a timeout configured, a lookup that waits for a server's
\* response does not wait forever: the read ends, with the response or with
\* an error that ends the lookup.
C12_TimeoutBoundsTheRead ==
    (TimeoutConfigured /\ pc = "Reading")
    ~> (pc = "Parsing" \/ (pc = "Error" /\ NetworkError(result.v)))

\* The lookup has returned to its caller or was ended by a panic.
Ended == pc \in { "Done", "Error", "Panic" }

\* C13: at most one connection is open at any time, and it is the connection
\* of the current hop; no connection is open while the loop of lookup_inner
\* decides on the next hop or the connect step of a hop is running; no
\* connection is open once the lookup has ended.
C13_OneConnectionScopedToItsHop ==
    /\ Cardinality(open) <= 1
    /\ open \subseteq { Len(dialed) }
    /\ pc \in { "Loop", "Connecting", "Attempting" } => open = {}
    /\ pc \in { "Querying", "Reading", "Parsing" } => open = { Len(dialed) }
    /\ Ended => open = {}

\* C13's case: the second hop has its connection, the only one open, after
\* the first hop's response was read over the first hop's connection.
C13_Witness ==
    /\ pc = "Reading"
    /\ Len(dialed) = 2
    /\ Len(received) = 1
    /\ open = { 2 }

\* The entry the first hop goes to: the override; else, for an IP target,
\* the IP fallback entry; else the entry of the longest registered suffix,
\* or the catch-all entry.
InitialEntry ==
    IF Opts.server.some THEN Opts.server.v
    ELSE IF Opts.target.variant # "Domain" THEN Registry.ip
    ELSE IF Registered # {} THEN Registry.map[Longest(Registered)]
    ELSE Registry.map[<<>>]

TemplateOf(entry) ==
    IF entry.query.some THEN entry.query.v ELSE <<"$addr", "\r", "\n">>

\* The text the first hop must carry.
FirstHopText ==
    IF Opts.target.variant = "Domain" /\ InitialEntry.punycode
    THEN domain_to_ascii(Opts.target.full)
    ELSE Opts.target.full

\* C14: the first message written is the initial entry's template with
\* "$addr" replaced by the ASCII form of a Domain target when the entry's
\* punycode flag is set, by the domain as given when it is not, and by the
\* literal address of an IPv4 or IPv6 target whatever the flag.  For the
\* domain "bücher.com" the message carries "xn--bcher-kva" with the flag and
\* "bücher" without it.
C14_FirstHopText ==
    (options.some /\ sent # <<>>)
    => /\ Substituted(TemplateOf(InitialEntry), FirstHopText, sent[1])
       /\ Opts.target.variant # "Domain"
          => Substituted(TemplateOf(InitialEntry), Opts.target.full, sent[1])
       /\ Opts.target.full = <<"bücher", ".", "com">>
          => IF InitialEntry.punycode
             THEN /\ "xn--bcher-kva" \in Range(sent[1])
                  /\ "bücher" \notin Range(sent[1])
             ELSE /\ "bücher" \in Range(sent[1])
                  /\ "xn--bcher-kva" \notin Range(sent[1])

\* C14's case: "bücher.com" went to the catch-all entry, whose flag is set,
\* in its ASCII form.
C14_Witness ==
    /\ SelectsFromMap
    /\ Opts.target.full = <<"bücher", ".", "com">>
    /\ sent # <<>>
    /\ InitialEntry.punycode
    /\ sent[1] = <<"xn--bcher-kva", ".", "com", "\r", "\n">>

\* C15: what a lookup returns is a response text or an error, never both,
\* and a text only on success.  A lookup that returns a network error
\* failed on the last hop it dialed and made no hop after it; a lookup that
\* returns a text read a response on every hop it dialed and returns the
\* last one.  The loop of lookup_inner is entered again only from a parsed
\* response, never after a failure, and nothing happens after the lookup
\* has ended.
C15_ErrorEndsLookupWithoutText ==
    /\ [](result.some
          => /\ result.v.ok <=> pc = "Done"
             /\ DOMAIN result.v \in { { "ok", "val" }, { "ok", "err" } }
             /\ result.v.ok
                => /\ Len(dialed) = Len(received)
                   /\ result.v.val = received[Len(received)]
             /\ NetworkError(result.v)
                => /\ pc = "Error"
                   /\ Len(dialed) = Len(received) + 1
                   /\ Len(sent) <= Len(dialed))
    /\ [][/\ pc \notin Terminal
          /\ pc' = "Loop" => pc \in { "Ready", "Selecting", "Parsing" }
          /\ (result' # result) => pc' \in { "Done", "Error" }]_vars

\* C15's case: the second hop failed after the first hop's response was
\* read, and the lookup returned the error.
C15_Witness ==
    /\ pc = "Error"
    /\ Len(received) = 1
    /\ Len(dialed) = 2
    /\ Len(sent) = 2
    /\ result = Some(Err(IOError))

\* C16: no hop dials the address the hop before it dialed.
C16_NoRedialOfSameAddress ==
    \A k \in 1..(Len(dialed) - 1) : dialed[k + 1] # dialed[k]

\* The active server is one a referral named: a hop after the first was
\* dialed, or a response was parsed and the loop went on.
LaterHop ==
    \/ Len(dialed) >= 2
    \/ received # <<>> /\ pc \notin { "Parsing", "Done" }

\* C17: the server of every hop after the first has no template of its own
\* and the punycode flag set, and its host is the text the referral header
\* of the response before it carried; the message written on such a hop is
\* "$addr\r\n" with "$addr" replaced by the text, whatever the override, the
\* initial entry, or the registry's entry for the same host ask for.
C17_ReferredServerUsesDefaults ==
    /\ LaterHop
       => /\ server.v.query = None
          /\ server.v.punycode = TRUE
          /\ LET k == IF pc \in { "Parsing", "Done" }
                      THEN Len(received) - 1 ELSE Len(received)
             IN  server.v.host.full = captures(received[k]).v
    /\ \A k \in 2..Len(sent) : sent[k] = text \o <<"\r", "\n">>

\* C17's case: a lookup with an override that has its own template was
\* referred to the host of the registry's IP fallback entry, which has its
\* own template too, and wrote the default message on the second hop.
C17_Witness ==
    /\ options.some
    /\ Opts.server.some
    /\ Opts.server.v.query.some
    /\ ~Opts.server.v.punycode
    /\ Len(sent) = 2
    /\ sent[1] # text \o <<"\r", "\n">>
    /\ sent[2] = text \o <<"\r", "\n">>
    /\ Registry.ip.query.some
    /\ server.v.host = Registry.ip.host
    /\ server.v # Registry.ip

\* Header lines whose host value is no host: an empty value, and a value
\* that ends in a carriage return.
MalformedLines ==
    { <<"Registrar Whois", ":">>,
      <<"Whois Server", ":", " ">> \o H_ripe \o <<"\r">> }

FirstHeaderMalformed(response) ==
    \E line \in MalformedLines : HasFirstHeaderLine(response, line)

\* A header with a host that parses comes later in the response.
HasLaterGoodHeader(response) ==
    \E m \in 3..(Len(response) - 1) :
        /\ response[m] \in RefLabels
        /\ response[m + 1] = ":"
        /\ HostLocalable_from_str(
               SubSeq(response, m + 2,
                      IndexOrEnd(response, m + 2, "\n") - 1)).ok

\* C18: when the first referral header of the response just read has a host
\* value that is no host (budget is left whenever a response is parsed), the
\* lookup returns that response as a success without dialing again, whatever
\* header follows in the response.
C18_MalformedFirstHeaderEndsChain ==
    [][(pc = "Parsing" /\ FirstHeaderMalformed(query_result))
       => /\ follow > 0
          /\ ~HostLocalable_from_str(captures(query_result).v).ok
          /\ pc' = "Done"
          /\ result' = Some(Ok(query_result))
          /\ dialed' = dialed]_vars

\* C18's case: a response whose first header has an empty host and whose
\* second header names a host has been returned while budget was left.
C18_Witness ==
    /\ pc = "Done"
    /\ follow > 0
    /\ FirstHeaderMalformed(query_result)
    /\ HasLaterGoodHeader(query_result)
    /\ result = Some(Ok(query_result))

\* C19: from the moment lookup_inner is entered the text is the one computed
\* from the initial entry's punycode flag, and the message of every hop is
\* that hop's template with "$addr" replaced by this same text.  With an
\* initial entry whose flag is not set, every hop's message carries
\* "bücher.com" as given, the hops to referred servers included.
C19_SameTextOnEveryHop ==
    (options.some /\ server.some)
    => /\ text = FirstHopText
       /\ \A k \in 1..Len(sent) :
             Substituted(IF k = 1 THEN TemplateOf(InitialEntry)
                         ELSE <<"$addr", "\r", "\n">>,
                         FirstHopText, sent[k])
       /\ (Opts.target.full = <<"bücher", ".", "com">>
           /\ ~InitialEntry.punycode)
          => \A k \in 1..Len(sent) :
                /\ "bücher" \in Range(sent[k])
                /\ "xn--bcher-kva" \notin Range(sent[k])

\* C19's case: the initial entry's flag is not set, and the second hop, to a
\* referred server whose flag is set, was sent "bücher.com" as given.
C19_Witness ==
    /\ options.some
    /\ server.some
    /\ Opts.target.full = <<"bücher", ".", "com">>
    /\ ~InitialEntry.punycode
    /\ server.v.punycode
    /\ Len(sent) = 2
    /\ sent[2] = <<"bücher", ".", "com", "\r", "\n">>

\* C20: whatever the resolution gave, the connect step does not panic: the
\* index of the last candidate is computed without underflow and is an index
\* of the candidate list.
C20_ConnectStepNeverPanics ==
    /\ ~panic.some
    /\ pc # "Panic"
    /\ socket_addrs.some
       => /\ socket_addrs.v - 1 >= 0
          /\ wrapping_sub(socket_addrs.v, 1) < socket_addrs.v

=============================================================================
